---- MODULE Spec2Model ----
(***************************************************************************)
(* Conway's Game of Life on a bounded grid (src/src/lib.rs, src/src/main.rs)*)
(*                                                                         *)
(* Specifications:                                                         *)
(*   Spec        Grid::new followed by Grid::step_forward calls            *)
(*   SpecPrint   Grid::new followed by Grid::print_grid                    *)
(*   SpecRun     main.rs run(): Game::new, print_game_state, step loop     *)
(*   SpecLookup  Grid::get_cell queries on grids of u8 dimensions          *)
(*   SpecConfig  Config::build on argument vectors                         *)
(***************************************************************************)
EXTENDS Integers, Sequences, FiniteSets, TLC

VARIABLES
    overflow_checks,  \* build profile: TRUE = arithmetic overflow panics, FALSE = it wraps
    width,            \* Config.grid_width / Grid.width (u8)
    height,           \* Config.grid_height / Grid.height (u8)
    starting_cells,   \* Config.starting_cells: Vec<(u8, u8)>
    cycle_count,      \* Config.cycle_count (usize)
    grid,             \* Grid.grid: Vec<Cell>
    pc,               \* position of the caller
    generation,       \* number of completed step_forward calls / loop iterations
    frames,           \* frames written to the console, oldest first
    args,             \* Config::build input
    built,            \* Config::build result
    query,            \* get_cell arguments <<x, y>>
    found             \* get_cell result

vars == <<overflow_checks, width, height, starting_cells, cycle_count, grid, pc,
          generation, frames, args, built, query, found>>

(***************************************************************************)
(* Bounds of the model                                                     *)
(***************************************************************************)
MaxWidth == 2
MaxHeight == 2
MaxGenerations == 3
MaxCycles == 2
MaxFrames == 4
MaxArgs == 6
EdgeSpan == 1
MaxPermuted == 4

(***************************************************************************)
(* Machine integers                                                        *)
(***************************************************************************)
U8_MAX == 255
I16_MAX == 32767
I16_MIN == 0 - 32768

WrapU8(n) == n % (U8_MAX + 1)
WrapI16(n) == ((n - I16_MIN) % (I16_MAX - I16_MIN + 1)) + I16_MIN
FitsU8(n) == n >= 0 /\ n <= U8_MAX
FitsI16(n) == n >= I16_MIN /\ n <= I16_MAX

(***************************************************************************)
(* State, Cell                                                             *)
(***************************************************************************)
Alive == "Alive"
Dead == "Dead"

\* `state as u8`: Alive = 1, Dead = 0
StateAsU8(s) == IF s = Alive THEN 1 ELSE 0

\* Cell::new
Cell_new_AlwaysDead(x, y, alive) == [state |-> Dead, x |-> x, y |-> y]
Cell_new(x, y, alive) == [state |-> IF alive THEN Alive ELSE Dead, x |-> x, y |-> y]

\* Cell::get_coords
get_coords(cell) == <<cell.x, cell.y>>

\* impl Debug for Cell
CellGlyph(cell) == IF cell.state = Alive THEN "O" ELSE "."

NoneCell == [kind |-> "None"]
SomeCell(cell) == [kind |-> "Some", cell |-> cell]

\* unwrap_cell_state_value
unwrap_cell_state_value(cell_option) ==
    IF cell_option.kind = "Some" THEN StateAsU8(cell_option.cell.state) ELSE 0

\* neighbours.iter().map(..).reduce(|acc, curr| acc + curr).unwrap_or_default()
RECURSIVE SumStates(_)
SumStates(neighbours) ==
    IF neighbours = <<>> THEN 0
    ELSE unwrap_cell_state_value(Head(neighbours)) + SumStates(Tail(neighbours))

\* calc_new_state
calc_new_state_NoBirth(current_state, neighbours) ==
    LET live_neighbour_count == SumStates(neighbours)
    IN  IF current_state = Alive /\ (live_neighbour_count = 2 \/ live_neighbour_count = 3)
        THEN Alive
        ELSE Dead
calc_new_state_SurviveOnTwoOnly(current_state, neighbours) ==
    LET live_neighbour_count == SumStates(neighbours)
    IN  IF current_state = Alive /\ live_neighbour_count = 2
        THEN Alive
        ELSE IF current_state = Dead /\ live_neighbour_count = 3
        THEN Alive
        ELSE Dead
calc_new_state(current_state, neighbours) ==
    LET live_neighbour_count == SumStates(neighbours)
    IN  IF current_state = Alive /\ (live_neighbour_count = 2 \/ live_neighbour_count = 3)
        THEN Alive
        ELSE IF current_state = Dead /\ live_neighbour_count = 3
        THEN Alive
        ELSE Dead

\* Cell::update_state
update_state(cell, neighbours) ==
    [cell EXCEPT !.state = calc_new_state(cell.state, neighbours)]

(***************************************************************************)
(* Grid                                                                    *)
(***************************************************************************)
\* Vec::contains
Contains(vec, item) == \E k \in 1..Len(vec) : vec[k] = item

\* Grid::new: `for b in 0..height { for a in 0..width { push } }`, one row at a time
RECURSIVE PushRow(_, _, _, _, _)
PushRow(cells, a, b, w, starting) ==
    IF a >= w THEN cells
    ELSE PushRow(Append(cells, Cell_new(a, b, Contains(starting, <<a, b>>))),
                 a + 1, b, w, starting)

RECURSIVE PushRows(_, _, _, _, _)
PushRows(cells, b, w, h, starting) ==
    IF b >= h THEN cells
    ELSE PushRows(cells \o PushRow(<<>>, 0, b, w, starting), b + 1, w, h, starting)

Grid_new_ColumnMajor(w, h, starting) ==
    [grid |-> PushRows(<<>>, 0, h, w, starting), width |-> w, height |-> h]
Grid_new(w, h, starting) ==
    [grid |-> PushRows(<<>>, 0, w, h, starting), width |-> w, height |-> h]

PanicCell == [kind |-> "Panic"]

NoneIndex == [kind |-> "None"]
PanicIndex == [kind |-> "Panic"]
SomeIndex(i) == [kind |-> "Some", index |-> i]

\* Grid::get_cell, the bounds test and the index `(y * self.width as i16 + x) as usize`
\* into a vector of vec_len cells (0-based)
get_cell_index_NoUpperBound(w, h, vec_len, x, y, checks) ==
    IF x < 0 \/ y < 0
    THEN NoneIndex
    ELSE LET idx == y * w + x
         IN  IF idx >= vec_len THEN PanicIndex ELSE SomeIndex(idx)
get_cell_index(w, h, vec_len, x, y, checks) ==
    IF x < 0 \/ x >= w \/ y < 0 \/ y >= h
    THEN NoneIndex
    ELSE LET prod == y * w
             sum == WrapI16(prod) + x
             idx == WrapI16(sum)
         IN  IF checks /\ (~FitsI16(prod) \/ ~FitsI16(sum)) THEN PanicIndex
             \* a negative i16 `as usize` is at least 2^64 - 2^15, beyond any Vec
             ELSE IF idx < 0 \/ idx >= vec_len THEN PanicIndex
             ELSE SomeIndex(idx)

\* Grid::get_cell; the vector is 0-based in the source, 1-based here
get_cell(self, x, y, checks) ==
    LET r == get_cell_index(self.width, self.height, Len(self.grid), x, y, checks)
    IN  IF r.kind = "Some" THEN SomeCell(self.grid[r.index + 1])
        ELSE IF r.kind = "Panic" THEN PanicCell
        ELSE NoneCell

\* The loops `for i in vec![x - 1, x, x + 1] { for j in vec![y - 1, y, y + 1] {..} }`
NeighbourOffsets ==
    <<  <<-1, -1>>, <<-1, 0>>, <<-1, 1>>,
        <<0, -1>>,             <<0, 1>>,
        <<1, -1>>,  <<1, 0>>,  <<1, 1>>  >>

\* the neighbours vector of one cell, read from `source`
neighbours_of(source, cell, checks) ==
    LET x == get_coords(cell)[1]
        y == get_coords(cell)[2]
    IN  [k \in 1..Len(NeighbourOffsets) |->
            get_cell(source, x + NeighbourOffsets[k][1], y + NeighbourOffsets[k][2], checks)]

AnyPanic(neighbours) == \E k \in 1..Len(neighbours) : neighbours[k].kind = "Panic"

\* One iteration of the loop of step_forward on cell number k (1-based) of `live`:
\* the neighbours come from initial_grid_state, the clone taken before the loop.
update_cell_ReadsLive(live, initial_grid_state, k, checks) ==
    LET neighbours == neighbours_of(live, live.grid[k], checks)
    IN  IF AnyPanic(neighbours) THEN [self |-> live, panicked |-> TRUE]
        ELSE [self |-> [live EXCEPT !.grid[k] = update_state(live.grid[k], neighbours)],
              panicked |-> FALSE]
update_cell(live, initial_grid_state, k, checks) ==
    LET neighbours == neighbours_of(initial_grid_state, live.grid[k], checks)
    IN  IF AnyPanic(neighbours) THEN [self |-> live, panicked |-> TRUE]
        ELSE [self |-> [live EXCEPT !.grid[k] = update_state(live.grid[k], neighbours)],
              panicked |-> FALSE]

\* The loop of step_forward, visiting the cells in the given order
RECURSIVE UpdateInOrder(_, _, _, _)
UpdateInOrder(live, initial_grid_state, order, checks) ==
    IF order = <<>> THEN [self |-> live, panicked |-> FALSE]
    ELSE LET r == update_cell(live, initial_grid_state, Head(order), checks)
         IN  IF r.panicked THEN r
             ELSE UpdateInOrder(r.self, initial_grid_state, Tail(order), checks)

ForwardOrder(self) == [k \in 1..Len(self.grid) |-> k]

\* Grid::step_forward: `for cell in &mut self.grid` visits the cells front to back
step_forward(self, checks) == UpdateInOrder(self, self, ForwardOrder(self), checks)

\* Grid::print_grid, the body of `for i in (0..(self.width * self.height)).rev()`
\* from index i downwards; `total` is the u8 value of self.width * self.height
RECURSIVE PrintLoop(_, _, _, _, _, _)
PrintLoop(self, total, i, line, rows, checks) ==
    IF i < 0 THEN [rows |-> rows, panicked |-> FALSE]
    ELSE LET t1 == total - self.width
             t2 == WrapU8(t1) - 1
             threshold == WrapU8(t2)
             pos == i % self.width
         IN  IF checks /\ (~FitsU8(t1) \/ ~FitsU8(t2))
             THEN [rows |-> rows, panicked |-> TRUE]
             ELSE IF i >= Len(self.grid) \/ (~(i > threshold) /\ pos >= Len(line))
             THEN [rows |-> rows, panicked |-> TRUE]
             ELSE LET line2 == IF i > threshold
                               THEN <<self.grid[i + 1]>> \o line
                               ELSE [line EXCEPT ![pos + 1] = self.grid[i + 1]]
                      rows2 == IF pos = 0
                               THEN Append(rows, [k \in 1..Len(line2) |-> CellGlyph(line2[k])])
                               ELSE rows
                  IN  PrintLoop(self, total, i - 1, line2, rows2, checks)

\* Grid::print_grid: the rows written, top row first, and whether it panicked
print_grid(self, checks) ==
    LET product == self.width * self.height
    IN  IF checks /\ ~FitsU8(product) THEN [rows |-> <<>>, panicked |-> TRUE]
        ELSE PrintLoop(self, WrapU8(product), WrapU8(product) - 1, <<>>, <<>>, checks)

(***************************************************************************)
(* Configurations the caller can hand to Grid::new                         *)
(***************************************************************************)
RECURSIVE SetToSeq(_)
SetToSeq(S) ==
    IF S = {} THEN <<>>
    ELSE LET e == CHOOSE e \in S : \A o \in S : e[2] < o[2] \/ (e[2] = o[2] /\ e[1] <= o[1])
         IN  <<e>> \o SetToSeq(S \ {e})

Coords(w, h) == (0..(w - 1)) \X (0..(h - 1))

\* every alive/dead assignment of a w x h grid, with or without one seed outside it
ConfigsOf(w, h) ==
    { [width |-> w, height |-> h, starting_cells |-> SetToSeq(s \cup o)] :
        s \in SUBSET Coords(w, h), o \in {{}, {<<w, h>>}} }
SmallConfigs ==
    UNION { ConfigsOf(d[1], d[2]) : d \in (0..MaxWidth) \X (0..MaxHeight) }

\* spec.md section 8: the 3x3 grid of the corner scenario, every assignment
SquareConfigs == ConfigsOf(3, 3)

\* spec.md section 8: the blinker on a 5x5 grid
BlinkerConfig ==
    [width |-> 5, height |-> 5, starting_cells |-> << <<1, 2>>, <<2, 2>>, <<3, 2>> >>]

\* spec.md section 8: a 2x2 block with a margin of dead cells on every side
BlockAt(a, b) == << <<a, b>>, <<a + 1, b>>, <<a, b + 1>>, <<a + 1, b + 1>> >>
BlockConfigs ==
    { [width |-> w, height |-> h, starting_cells |-> BlockAt(a, b)] :
        w \in 4..5, h \in 4..5, a \in 1..2, b \in 1..2 }

\* grids whose cell count does not fit the u8 product of print_grid
WideConfigs ==
    { [width |-> 16, height |-> h, starting_cells |-> << <<0, 0>>, <<1, 0>>, <<0, 1>> >>] :
        h \in {16, 17} }

GridConfigs == SmallConfigs \cup SquareConfigs \cup {BlinkerConfig} \cup BlockConfigs

InitCommon ==
    /\ grid = <<>>
    /\ pc = "config"
    /\ generation = 0
    /\ frames = <<>>
    /\ args = <<>>
    /\ built = [kind |-> "None"]
    /\ query = <<0, 0>>
    /\ found = NoneCell

Self == [grid |-> grid, width |-> width, height |-> height]

(***************************************************************************)
(* Spec: Grid::new, then Grid::step_forward                                *)
(***************************************************************************)
InitConfig(configs) ==
    \E c \in configs :
        /\ width = c.width
        /\ height = c.height
        /\ starting_cells = c.starting_cells

Init ==
    /\ InitCommon
    /\ overflow_checks \in BOOLEAN
    /\ InitConfig(GridConfigs)
    /\ cycle_count = 0

\* Grid::new(width, height, starting_cells)
GridNew ==
    /\ pc = "config"
    /\ grid' = Grid_new(width, height, starting_cells).grid
    /\ pc' = "ready"
    /\ UNCHANGED <<overflow_checks, width, height, starting_cells, cycle_count,
                   generation, frames, args, built, query, found>>

\* Grid::step_forward
StepForward ==
    /\ pc = "ready"
    /\ generation < MaxGenerations
    /\ LET r == step_forward(Self, overflow_checks)
       IN  /\ grid' = r.self.grid
           /\ pc' = IF r.panicked THEN "panicked" ELSE "ready"
    /\ generation' = generation + 1
    /\ UNCHANGED <<overflow_checks, width, height, starting_cells, cycle_count,
                   frames, args, built, query, found>>

Next == GridNew \/ StepForward

Spec == Init /\ [][Next]_vars

(***************************************************************************)
(* SpecPrint: Grid::new, then Grid::print_grid                             *)
(***************************************************************************)
InitPrint ==
    /\ InitCommon
    /\ overflow_checks \in BOOLEAN
    /\ InitConfig(GridConfigs \cup WideConfigs)
    /\ cycle_count = 0

\* Grid::print_grid
PrintGrid ==
    /\ pc = "ready"
    /\ LET r == print_grid(Self, overflow_checks)
       IN  /\ frames' = Append(frames, r.rows)
           /\ pc' = IF r.panicked THEN "panicked" ELSE "printed"
    /\ UNCHANGED <<overflow_checks, width, height, starting_cells, cycle_count, grid,
                   generation, args, built, query, found>>

NextPrint == GridNew \/ PrintGrid

SpecPrint == InitPrint /\ [][NextPrint]_vars

(***************************************************************************)
(* SpecRun: run() of main.rs                                               *)
(***************************************************************************)
InitRun ==
    /\ InitCommon
    /\ overflow_checks \in BOOLEAN
    /\ InitConfig(GridConfigs)
    /\ cycle_count \in 0..MaxCycles

\* Game::new(config); game.print_game_state();
RunStart ==
    /\ pc = "config"
    /\ LET game == Grid_new(width, height, starting_cells)
           shown == print_grid(game, overflow_checks)
       IN  /\ grid' = game.grid
           /\ frames' = Append(frames, shown.rows)
           /\ pc' = IF shown.panicked THEN "panicked" ELSE "loop"
    /\ UNCHANGED <<overflow_checks, width, height, starting_cells, cycle_count,
                   generation, args, built, query, found>>

\* one iteration of `for _ in get_cycle_range(cycle_count)`: sleep, game.step()
RunStep ==
    /\ pc = "loop"
    /\ IF cycle_count = 0 THEN generation < MaxFrames ELSE generation < cycle_count
    /\ LET stepped == step_forward(Self, overflow_checks)
           shown == print_grid(stepped.self, overflow_checks)
       IN  /\ grid' = stepped.self.grid
           /\ frames' = IF stepped.panicked THEN frames ELSE Append(frames, shown.rows)
           /\ pc' = IF stepped.panicked \/ shown.panicked THEN "panicked" ELSE "loop"
    /\ generation' = generation + 1
    /\ UNCHANGED <<overflow_checks, width, height, starting_cells, cycle_count,
                   args, built, query, found>>

\* the range 0..cycle_count is exhausted: Ok(())
RunReturn ==
    /\ pc = "loop"
    /\ cycle_count # 0
    /\ generation = cycle_count
    /\ pc' = "done"
    /\ UNCHANGED <<overflow_checks, width, height, starting_cells, cycle_count, grid,
                   generation, frames, args, built, query, found>>

NextRun == RunStart \/ RunStep \/ RunReturn

SpecRun == InitRun /\ [][NextRun]_vars

(***************************************************************************)
(* SpecLookup: Grid::get_cell on grids of any u8 width and height          *)
(***************************************************************************)
\* the values of lo..hi within EdgeSpan of its ends and of its middle
EdgeValues(lo, hi) ==
    { v \in lo..hi :
        \E e \in {lo, (lo + hi) \div 2, hi} : v - e <= EdgeSpan /\ e - v <= EdgeSpan }

InitLookup ==
    /\ InitCommon
    /\ overflow_checks \in BOOLEAN
    /\ width \in EdgeValues(0, U8_MAX)
    /\ height \in EdgeValues(0, U8_MAX)
    /\ starting_cells = <<>>
    /\ cycle_count = 0

\* self.get_cell(x, y) on the grid Grid::new(width, height, ..) builds, whose vector holds
\* width * height cells; the callers pass x - 1 .. x + 1 of a u8 coordinate as i16
GetCell ==
    /\ pc = "config"
    /\ \E x, y \in EdgeValues(-1, U8_MAX) :
          /\ query' = <<x, y>>
          /\ found' = get_cell_index(width, height, width * height, x, y, overflow_checks)
    /\ pc' = "looked"
    /\ UNCHANGED <<overflow_checks, width, height, starting_cells, cycle_count, grid,
                   generation, frames, args, built>>

NextLookup == GetCell

SpecLookup == InitLookup /\ [][NextLookup]_vars

(***************************************************************************)
(* Config::build; a String is a sequence of one-character strings          *)
(***************************************************************************)
DigitChars == <<"0", "1", "2", "3", "4", "5", "6", "7", "8", "9">>
IsDigit(c) == \E d \in 1..Len(DigitChars) : DigitChars[d] = c
DigitValue(c) == (CHOOSE d \in 1..Len(DigitChars) : DigitChars[d] = c) - 1

ParseErr == [ok |-> FALSE, val |-> 0]
ParseOk(v) == [ok |-> TRUE, val |-> v]

\* str::parse for an unsigned integer: the digits, most significant first, accumulated
\* with checked multiplication and addition
RECURSIVE ParseDigits(_, _, _)
ParseDigits(digits, acc, max) ==
    IF digits = <<>> THEN ParseOk(acc)
    ELSE IF ~IsDigit(Head(digits)) THEN ParseErr
    ELSE LET next == acc * 10 + DigitValue(Head(digits))
         IN  IF next > max THEN ParseErr
             ELSE ParseDigits(Tail(digits), next, max)

\* str::parse::<u8> / ::<usize>: empty input and a lone sign are errors, a leading
\* "+" is accepted, a "-" is no digit of an unsigned type
ParseUnsigned(str, max) ==
    IF str = <<>> THEN ParseErr
    ELSE IF Head(str) = "+"
         THEN IF Tail(str) = <<>> THEN ParseErr ELSE ParseDigits(Tail(str), 0, max)
         ELSE ParseDigits(str, 0, max)

\* usize::MAX exceeds the integers of the model; every text tried is far below this
MaxUsizeModelled == 999999999

ParseU8(str) == ParseUnsigned(str, U8_MAX)
ParseUsize(str) == ParseUnsigned(str, MaxUsizeModelled)

\* str::split(',').collect()
RECURSIVE Split(_, _)
Split(str, current) ==
    IF str = <<>> THEN <<current>>
    ELSE IF Head(str) = "," THEN <<current>> \o Split(Tail(str), <<>>)
    ELSE Split(Tail(str), Append(current, Head(str)))

ConfigErr(e) == [kind |-> "Err", error |-> e]

\* the loop `for cell_string in starting_cells_strings` of Config::build
RECURSIVE ParsePoints(_, _)
ParsePoints_KeepDuplicates(strings, cells) ==
    IF strings = <<>> THEN [kind |-> "Ok", cells |-> cells]
    ELSE LET components == Split(Head(strings), <<>>)
         IN  IF Len(components) # 2 THEN ConfigErr("StartingPointsParsingError")
             ELSE LET x_component == ParseU8(components[1])
                      y_component == ParseU8(components[2])
                      point == <<x_component.val, y_component.val>>
                  IN  IF ~x_component.ok THEN ConfigErr("StartingPointsParsingError")
                      ELSE IF ~y_component.ok THEN ConfigErr("StartingPointsParsingError")
                      ELSE ParsePoints(Tail(strings), Append(cells, point))
ParsePoints(strings, cells) ==
    IF strings = <<>> THEN [kind |-> "Ok", cells |-> cells]
    ELSE LET components == Split(Head(strings), <<>>)
         IN  IF Len(components) # 2 THEN ConfigErr("StartingPointsParsingError")
             ELSE LET x_component == ParseU8(components[1])
                      y_component == ParseU8(components[2])
                      point == <<x_component.val, y_component.val>>
                  IN  IF ~x_component.ok THEN ConfigErr("StartingPointsParsingError")
                      ELSE IF ~y_component.ok THEN ConfigErr("StartingPointsParsingError")
                      ELSE IF Contains(cells, point) THEN ParsePoints(Tail(strings), cells)
                      ELSE ParsePoints(Tail(strings), Append(cells, point))

\* Config::build
build_ParsesBeforeCounting(a) ==
    IF Len(a) < 2 THEN ConfigErr("StartingSizeMissing")
    ELSE IF ~ParseU8(a[1]).ok \/ ~ParseU8(a[2]).ok THEN ConfigErr("ArgsParsingError")
    ELSE IF Len(a) < 3 THEN ConfigErr("CycleCountMissing")
    ELSE IF Len(a) < 6 THEN ConfigErr("TooFewStartingPoints")
    ELSE IF ~ParseUsize(a[3]).ok THEN ConfigErr("ArgsParsingError")
    ELSE LET points == ParsePoints(SubSeq(a, 4, Len(a)), <<>>)
         IN  IF points.kind = "Err" THEN points
             ELSE [kind |-> "Ok",
                   grid_width |-> ParseU8(a[1]).val,
                   grid_height |-> ParseU8(a[2]).val,
                   cycle_count |-> ParseUsize(a[3]).val,
                   starting_cells |-> points.cells]
build(a) ==
    IF Len(a) < 2 THEN ConfigErr("StartingSizeMissing")
    ELSE IF Len(a) < 3 THEN ConfigErr("CycleCountMissing")
    ELSE IF Len(a) < 6 THEN ConfigErr("TooFewStartingPoints")
    ELSE IF ~ParseU8(a[1]).ok THEN ConfigErr("ArgsParsingError")
    ELSE IF ~ParseU8(a[2]).ok THEN ConfigErr("ArgsParsingError")
    ELSE IF ~ParseUsize(a[3]).ok THEN ConfigErr("ArgsParsingError")
    ELSE LET points == ParsePoints(SubSeq(a, 4, Len(a)), <<>>)
         IN  IF points.kind = "Err" THEN points
             ELSE [kind |-> "Ok",
                   grid_width |-> ParseU8(a[1]).val,
                   grid_height |-> ParseU8(a[2]).val,
                   cycle_count |-> ParseUsize(a[3]).val,
                   starting_cells |-> points.cells]

(***************************************************************************)
(* SpecConfig: Config::build on argument vectors                           *)
(***************************************************************************)
\* texts tried as width, height and cycle count: "5", "256", "+3", "1,2", ""
HeaderTexts ==
    { <<"5">>, <<"2", "5", "6">>, <<"+", "3">>, <<"1", ",", "2">>, <<>> }

\* texts tried as starting points: "1,2", "0,0", "01,2", "1,2,3", "1,", "2,300", "5", "1,-2"
PointTexts ==
    { <<"1", ",", "2">>, <<"0", ",", "0">>, <<"0", "1", ",", "2">>,
      <<"1", ",", "2", ",", "3">>, <<"1", ",">>, <<"2", ",", "3", "0", "0">>, <<"5">>,
      <<"1", ",", "-", "2">> }

TextsAt(position) == IF position <= 3 THEN HeaderTexts ELSE PointTexts

InitConfigBuild ==
    /\ InitCommon
    /\ overflow_checks = TRUE
    /\ width = 0
    /\ height = 0
    /\ starting_cells = <<>>
    /\ cycle_count = 0

\* env::args().skip(1).collect(): the next command-line argument joins the vector
CollectArg ==
    /\ pc = "config"
    /\ Len(args) < MaxArgs
    /\ \E text \in TextsAt(Len(args) + 1) : args' = Append(args, text)
    /\ UNCHANGED <<overflow_checks, width, height, starting_cells, cycle_count, grid, pc,
                   generation, frames, built, query, found>>

\* Config::build(args)
Build ==
    /\ pc = "config"
    /\ built' = build(args)
    /\ pc' = "built"
    /\ UNCHANGED <<overflow_checks, width, height, starting_cells, cycle_count, grid,
                   generation, frames, args, query, found>>

NextConfig == CollectArg \/ Build

SpecConfig == InitConfigBuild /\ [][NextConfig]_vars

(***************************************************************************)
(* Reference definitions used by the properties                            *)
(***************************************************************************)
Cells == { grid[k] : k \in 1..Len(grid) }
CellsAt(x, y) == { c \in Cells : c.x = x /\ c.y = y }
StateAt(g, x, y) == (CHOOSE c \in { g[k] : k \in 1..Len(g) } : c.x = x /\ c.y = y).state
AliveSet(g) == { <<g[k].x, g[k].y>> : k \in { j \in 1..Len(g) : g[j].state = Alive } }
Seeds == { starting_cells[k] : k \in 1..Len(starting_cells) }

\* the frame print_grid is to write: rows from the highest y to the lowest,
\* each row from the lowest x to the highest
ExpectedFrame ==
    [r \in 1..height |->
        [c \in 1..width |-> IF StateAt(grid, c - 1, height - r) = Alive THEN "O" ELSE "."]]

\* C6: on every grid with width >= 1 and height >= 1, print_grid completes without
\* a panic, writes exactly the expected frame and leaves the grid as constructed.
C6_PrintGridRendersEveryCell ==
    (pc \in {"printed", "panicked"} /\ width >= 1 /\ height >= 1)
        => /\ pc = "printed"
           /\ frames = <<ExpectedFrame>>
           /\ grid = Grid_new(width, height, starting_cells).grid

\* print_grid is as C6 says on the grids with at least two rows and at most 255 cells
PrintGridRendersTallSmallGrids ==
    (pc \in {"printed", "panicked"} /\ width >= 1 /\ height >= 2 /\ width * height <= U8_MAX)
        => /\ pc = "printed"
           /\ frames = <<ExpectedFrame>>

(***************************************************************************)
(* Properties of Spec                                                      *)
(***************************************************************************)
Offsets == ({-1, 0, 1} \X {-1, 0, 1}) \ {<<0, 0>>}

\* the live cells among the in-grid positions around (x, y), no wraparound
LiveNeighbours(alive, x, y) ==
    { d \in Offsets :
        /\ <<x + d[1], y + d[2]>> \in Coords(width, height)
        /\ <<x + d[1], y + d[2]>> \in alive }

\* the B3/S23 rule applied to a set of live coordinates
LifeRule(alive) ==
    { p \in Coords(width, height) :
        LET n == Cardinality(LiveNeighbours(alive, p[1], p[2]))
        IN  \/ p \in alive /\ n \in {2, 3}
            \/ p \notin alive /\ n = 3 }

\* C1: after one step_forward the cell at (x, y) is Alive iff it was Alive with 2 or 3
\* live in-grid neighbours or Dead with exactly 3, counted on the grid before the step.
C1_StepForwardAppliesLifeRule ==
    [][StepForward =>
        /\ pc' = "ready"
        /\ \A p \in Coords(width, height) :
              (StateAt(grid', p[1], p[2]) = Alive) <=> (p \in LifeRule(AliveSet(grid)))]_vars

\* a 3x3 grid with exactly (1,0), (0,1), (1,1) alive has been stepped: corner (0,0) is born
C1_Witness ==
    /\ pc = "ready" /\ generation = 1 /\ width = 3 /\ height = 3
    /\ Seeds = {<<1, 0>>, <<0, 1>>, <<1, 1>>}
    /\ StateAt(grid, 0, 0) = Alive

BlinkerHorizontal == {<<1, 2>>, <<2, 2>>, <<3, 2>>}
BlinkerVertical == {<<2, 1>>, <<2, 2>>, <<2, 3>>}
IsBlinker == width = 5 /\ height = 5 /\ Seeds = BlinkerHorizontal

\* C2: the blinker on a 5x5 grid is horizontal after an even number of steps and
\* vertical after an odd number of steps.
C2_BlinkerOscillates ==
    (IsBlinker /\ pc # "config")
        => /\ pc = "ready"
           /\ AliveSet(grid) = IF generation % 2 = 0 THEN BlinkerHorizontal ELSE BlinkerVertical

C2_Witness ==
    IsBlinker /\ pc = "ready" /\ generation = 3 /\ AliveSet(grid) = BlinkerVertical

\* the seeds are exactly one 2x2 block with a dead margin on every side
IsBlock ==
    /\ Len(starting_cells) = 4
    /\ \E a \in 1..(width - 3), b \in 1..(height - 3) :
          Seeds = {<<a, b>>, <<a + 1, b>>, <<a, b + 1>>, <<a + 1, b + 1>>}

\* C3: a 2x2 block with margin is unchanged by any number of step_forward calls.
C3_BlockIsStill ==
    (IsBlock /\ pc # "config") => (pc = "ready" /\ AliveSet(grid) = Seeds)

C3_Witness ==
    IsBlock /\ pc = "ready" /\ generation >= 2 /\ Cardinality(AliveSet(grid)) = 4

\* the seeds that lie inside the grid, in the order given
RECURSIVE InGrid(_)
InGrid(seq) ==
    IF seq = <<>> THEN <<>>
    ELSE IF Head(seq) \in Coords(width, height)
         THEN <<Head(seq)>> \o InGrid(Tail(seq))
         ELSE InGrid(Tail(seq))

\* C4: after Grid::new the cell at (x, y) is Alive iff (x, y) is a seed; seeds outside
\* the grid change nothing.
C4_NewSeedsExactly ==
    (pc = "ready" /\ generation = 0)
        => /\ \A p \in Coords(width, height) :
                /\ Cardinality(CellsAt(p[1], p[2])) = 1
                /\ (StateAt(grid, p[1], p[2]) = Alive) <=> (p \in Seeds)
           /\ AliveSet(grid) \subseteq Seeds
           /\ grid = Grid_new(width, height, InGrid(starting_cells)).grid

C4_Witness ==
    /\ pc = "ready" /\ generation = 0
    /\ \E p \in Seeds : p \notin Coords(width, height)
    /\ \E p \in Seeds : p \in Coords(width, height) /\ StateAt(grid, p[1], p[2]) = Alive
    /\ \E p \in Coords(width, height) : StateAt(grid, p[1], p[2]) = Dead

\* C5: the vector holds width*height cells, the cell at index i has coordinates
\* (i mod width, i div width), and every coordinate occurs once, after new and after
\* every step_forward.
C5_GridStructure ==
    (pc # "config")
        => /\ Len(grid) = width * height
           /\ \A k \in 1..Len(grid) :
                /\ grid[k].x = (k - 1) % width
                /\ grid[k].y = (k - 1) \div width
           /\ \A p \in Coords(width, height) : Cardinality(CellsAt(p[1], p[2])) = 1
           /\ \A c \in Cells : <<c.x, c.y>> \in Coords(width, height)

C5_Witness ==
    /\ pc = "ready" /\ generation >= 1 /\ width = 4 /\ height = 5
    /\ grid[6].x = 1 /\ grid[6].y = 1 /\ grid[6].state = Alive

\* every order of visiting n cells
AllOrders(n) ==
    { f \in [1..n -> 1..n] : \A a, b \in 1..n : a # b => f[a] # f[b] }

\* back to front; from the middle onwards, wrapping; from the middle backwards, wrapping
SampleOrders(n) ==
    { [k \in 1..n |-> n + 1 - k],
      [k \in 1..n |-> ((k - 1 + (n \div 2)) % n) + 1],
      [k \in 1..n |-> n - ((k - 1 + (n \div 2)) % n)] }

\* the visiting orders compared with the source's front-to-back order
Orders(n) == IF n <= MaxPermuted THEN AllOrders(n) ELSE SampleOrders(n)

\* C9: visiting the cells in reverse or in any other order gives the grid that
\* step_forward gives: no cell's next state depends on a cell already overwritten.
C9_SnapshotIsolation ==
    [][StepForward =>
        \A order \in Orders(Len(grid)) :
            UpdateInOrder(Self, Self, order, overflow_checks).self.grid = grid']_vars

\* a stepped grid on which reading already-overwritten cells would have differed
C9_Witness ==
    /\ pc = "ready" /\ generation = 1 /\ width = 3 /\ height = 3
    /\ Seeds = {<<0, 0>>, <<1, 0>>, <<0, 1>>}
    /\ AliveSet(grid) = {<<0, 0>>, <<1, 0>>, <<0, 1>>, <<1, 1>>}

(***************************************************************************)
(* Properties of SpecRun                                                   *)
(***************************************************************************)
\* the grid of generation n: the seeds inside the grid, advanced n times by the rule
RECURSIVE AliveAtGeneration(_)
AliveAtGeneration(n) ==
    IF n = 0 THEN Seeds \cap Coords(width, height)
    ELSE LifeRule(AliveAtGeneration(n - 1))

GridOfGeneration(n) ==
    [grid |-> Grid_new(width, height, SetToSeq(AliveAtGeneration(n))).grid,
     width |-> width, height |-> height]

\* C7: run never aborts; frame k shows generation k - 1; with cycle count n > 0 it ends
\* after n steps with n + 1 frames written; with cycle count 0 it never ends.
C7_RunLoopFrames ==
    /\ pc # "panicked"
    /\ \A k \in 1..Len(frames) :
          frames[k] = print_grid(GridOfGeneration(k - 1), overflow_checks).rows
    /\ pc \in {"loop", "done"} => Len(frames) = generation + 1
    /\ pc \in {"loop", "done"} => AliveSet(grid) = AliveAtGeneration(generation)
    /\ pc = "done" => (cycle_count > 0 /\ generation = cycle_count)
    /\ cycle_count = 0 => pc # "done"

\* the grids print_grid can render: empty ones, and those of two or more rows whose
\* cell count fits a u8
Printable == width = 0 \/ height = 0 \/ (height >= 2 /\ width * height <= U8_MAX)

\* the run loop is as C7 says on the grids print_grid can render
RunLoopFramesOnPrintableGrids == Printable => C7_RunLoopFrames

(***************************************************************************)
(* Properties of SpecLookup                                                *)
(***************************************************************************)
\* C10: get_cell is None outside [0,width) x [0,height) and otherwise finds, without
\* overflow, the cell at index y*width + x, whose coordinates are (x, y).
C10_GetCellExact ==
    (pc = "looked")
        => LET x == query[1]
               y == query[2]
           IN  IF x < 0 \/ x >= width \/ y < 0 \/ y >= height
               THEN found = NoneIndex
               ELSE /\ found.kind = "Some"
                    /\ found.index = y * width + x
                    /\ found.index % width = x
                    /\ found.index \div width = y

\* get_cell is as C10 says when the largest index, width*height - 1, fits an i16
GetCellExactOnSmallGrids == (width * height - 1 <= I16_MAX) => C10_GetCellExact

(***************************************************************************)
(* Properties of SpecConfig                                                *)
(***************************************************************************)
\* the value of a string of decimal digits
RECURSIVE DecimalValue(_)
DecimalValue(digits) ==
    IF digits = <<>> THEN 0
    ELSE DecimalValue(SubSeq(digits, 1, Len(digits) - 1)) * 10
            + DigitValue(digits[Len(digits)])

Unsigned(text) == IF text # <<>> /\ text[1] = "+" THEN Tail(text) ELSE text

\* the text is a decimal number of at most max, with an optional leading "+"
IsNumberText(text, max) ==
    /\ Unsigned(text) # <<>>
    /\ \A k \in 1..Len(Unsigned(text)) : IsDigit(Unsigned(text)[k])
    /\ DecimalValue(Unsigned(text)) <= max

NumberOf(text) == DecimalValue(Unsigned(text))

Commas(text) == { k \in 1..Len(text) : text[k] = "," }
BeforeComma(text) == SubSeq(text, 1, (CHOOSE k \in Commas(text) : TRUE) - 1)
AfterComma(text) == SubSeq(text, (CHOOSE k \in Commas(text) : TRUE) + 1, Len(text))

\* the text is exactly two comma-separated 8-bit unsigned numbers
IsPointText(text) ==
    /\ Cardinality(Commas(text)) = 1
    /\ IsNumberText(BeforeComma(text), U8_MAX)
    /\ IsNumberText(AfterComma(text), U8_MAX)

PointOf(text) == <<NumberOf(BeforeComma(text)), NumberOf(AfterComma(text))>>

\* the points of args[4..], each at its first appearance only
FirstAppearances(a) ==
    LET firsts == { k \in 4..Len(a) :
                      \A j \in 4..(k - 1) : PointOf(a[j]) # PointOf(a[k]) }
        nth(i) == CHOOSE k \in firsts : Cardinality({ j \in firsts : j <= k }) = i
    IN  [i \in 1..Cardinality(firsts) |-> PointOf(a[nth(i)])]

====
